---------------------------- MODULE Spec2Model ----------------------------
(***************************************************************************)
(* Plan store (relational GptsPlansDao and in-memory                       *)
(* DefaultGptsPlansMemory), planner (PlannerAgent._a_planning) and the     *)
(* plan scheduler (PlanChat / PlanChatManager) of DB-GPT.                  *)
(***************************************************************************)
EXTENDS Integers, Sequences, FiniteSets, TLC

VARIABLES
    backend,          \* which plans_memory is behind memory.plans_memory
    groupchat,        \* the PlanChat configuration the manager is registered with
    max_retry_round,  \* AgentContext.max_retry_round of the conversation
    store,            \* rows of gpts_plans / DefaultGptsPlansMemory.df, in insertion order
    pc,               \* position of the manager: idle, dispatched, terminated, crashed
    turn,             \* what the last a_run_chat did
    dispatch,         \* the dispatch message in flight (a_send of a_run_chat)
    reply,            \* what the last a_generate_reply did
    messages,         \* PlanChat.messages
    last,             \* the last direct call of the plan-store API and its outcome
    handlers          \* the a_generate_reply coroutines in flight at the same time

vars == <<backend, groupchat, max_retry_round, store, pc, turn, dispatch, reply, messages, last,
          handlers>>

-----------------------------------------------------------------------------
(* Bounds of the model *)

MaxPlanLen == 2       \* items of one planner JSON array; serial numbers are 1..MaxPlanLen + 1
MaxRetryRound == 1    \* max_retry_round is 0..MaxRetryRound
MaxRows == 3          \* rows of the store under the store-level specification
MaxReplies == 2       \* replies of a run whose replies need not carry an action report

-----------------------------------------------------------------------------
(* Values *)

None == "None"

\* Status (dbgpt.agent.common.schema.Status, pilot.common.schema.Status)
StatusTODO == "todo"
StatusRUNNING == "running"
StatusRETRYING == "retrying"
StatusCOMPLETE == "complete"
StatusFAILED == "failed"

\* the state a GptsPlan has when none is given to its constructor
GptsPlanDefaultState == StatusTODO

BackendDao == "dao"
BackendMem == "mem"
Backends == {BackendDao, BackendMem}

Convs == {"c1", "c2"}

\* A task number is a Python value: the int n or the str "n".
IntNum(n) == [k |-> "int", n |-> n]
StrNum(n) == [k |-> "str", n |-> n]
SerialNumbers == 1..(MaxPlanLen + 1)
TaskNums == {IntNum(n) : n \in SerialNumbers} \cup {StrNum(n) : n \in SerialNumbers}

\* what item.get('serial_number') returns for an item without the key: None
NoneNum == [k |-> "none", n |-> 0]

\* Python truth value of a task number (0 and "" are false)
Truthy(num) == IF num.k = "int" THEN num.n # 0 ELSE num.k # "none"

\* rely is the comma-joined string of serial numbers; <<1, 2>> stands for "1,2", <<>> for ""
RelyStrings == {<<>>} \cup {<<n>> : n \in SerialNumbers} \cup {<<1, 2>>}

\* str.split(",") of a non-empty rely string
RelySplit(rely) == [i \in DOMAIN rely |-> StrNum(rely[i])]

Range(s) == {s[i] : i \in DOMAIN s}


-----------------------------------------------------------------------------
(* Rows of the plan store: the columns of GptsPlansEntity / fields of GptsPlan *)

GptsPlan(conv_id, sub_task_num, sub_task_content) ==
    [conv_id          |-> conv_id,
     sub_task_num     |-> sub_task_num,
     sub_task_content |-> sub_task_content,
     sub_task_title   |-> None,
     sub_task_agent   |-> None,
     resource_name    |-> None,
     rely             |-> <<>>,
     agent_model      |-> None,
     retry_times      |-> 0,
     max_retry_times  |-> 0,
     state            |-> GptsPlanDefaultState,
     result           |-> None]

\* outcome of a call that returns rows or raises
Rows(rows) == [raised |-> FALSE, rows |-> rows]
RaisedRows == [raised |-> TRUE, rows |-> <<>>]
\* outcome of a call that changes the store or raises
Done(s) == [raised |-> FALSE, store |-> s]
Raised(s) == [raised |-> TRUE, store |-> s]

-----------------------------------------------------------------------------
(* GptsPlansDao: table gpts_plans *)

\* Column(Integer): the database keeps the integer value of what is bound
IntegerColumn(num) == IntNum(num.n)

\* comparison of the Integer column sub_task_num with a bound parameter
ColumnEq(col, param) == col.n = param.n

\* UniqueConstraint("conv_id", "sub_task_num", name="uk_sub_task")
uk_sub_task(s) ==
    \A i, j \in DOMAIN s :
        (s[i].conv_id = s[j].conv_id /\ ColumnEq(s[i].sub_task_num, s[j].sub_task_num)) => i = j

\* nullable=False columns
NotNullable(row) ==
    /\ row.sub_task_num # NoneNum
    /\ row.sub_task_title # None
    /\ row.sub_task_content # None

Dao_batch_save(s, plans) ==
    LET inserted == s \o [i \in DOMAIN plans |->
                            [plans[i] EXCEPT !.sub_task_num = IntegerColumn(@)]]
    IN  IF uk_sub_task(inserted) /\ \A i \in DOMAIN plans : NotNullable(plans[i])
        THEN Done(inserted)
        ELSE Raised(s)   \* IntegrityError at commit: nothing of the bulk insert is kept

Dao_get_by_conv_id(s, conv_id) ==
    IF conv_id # ""
    THEN Rows(SelectSeq(s, LAMBDA r : r.conv_id = conv_id))
    ELSE Rows(s)

Dao_get_by_conv_id_and_num(s, conv_id, task_nums) ==
    IF conv_id # ""
    THEN Rows(SelectSeq(s, LAMBDA r : /\ r.conv_id = conv_id
                                      /\ \E i \in DOMAIN task_nums :
                                            ColumnEq(r.sub_task_num, task_nums[i])))
    ELSE Rows(s)

\* state.in_(Status.TODO.value, Status.RETRYING.value): in_() takes one argument,
\* the call raises TypeError before any query is made
Dao_get_todo_plans(s, conv_id) ==
    IF conv_id = "" THEN Rows(<<>>) ELSE RaisedRows

Dao_complete_task(s, conv_id, task_num, result) ==
    Done([i \in DOMAIN s |->
        LET r == s[i]
        IN  IF r.conv_id = conv_id /\ ColumnEq(r.sub_task_num, task_num)
            THEN [r EXCEPT !.state = StatusCOMPLETE, !.result = result]
            ELSE r])

Dao_update_task(s, conv_id, task_num, state, retry_times, agent, model, result) ==
    Done([i \in DOMAIN s |->
        LET r == s[i]
        IN  IF r.conv_id = conv_id /\ ColumnEq(r.sub_task_num, task_num)
            THEN [r EXCEPT !.state = state, !.sub_task_agent = agent,
                  !.agent_model = model, !.retry_times = retry_times,
                  !.result = result]
            ELSE r])

Dao_remove_by_conv_id(s, conv_id) ==
    Done(SelectSeq(s, LAMBDA r : r.conv_id # conv_id))

-----------------------------------------------------------------------------
(* DefaultGptsPlansMemory: pandas DataFrame df *)

\* Status.COMPLETED.value of pilot.common.schema
PilotStatusCOMPLETED == StatusCOMPLETE

Mem_batch_save(s, plans) == Done(s \o plans)

Mem_get_by_conv_id(s, conv_id) ==
    Rows(SelectSeq(s, LAMBDA r : r.conv_id = conv_id))

\* ','.join(task_nums) raises TypeError on an int; the query then compares the
\* column with the int literals [n, ...], which a stored str never equals
Mem_get_by_conv_id_and_num(s, conv_id, task_nums) ==
    IF \E i \in DOMAIN task_nums : task_nums[i].k # "str"
    THEN RaisedRows
    ELSE Rows(SelectSeq(s, LAMBDA r : /\ r.conv_id = conv_id
                                      /\ \E i \in DOMAIN task_nums :
                                            r.sub_task_num = IntNum(task_nums[i].n)))

\* get_todo_plans without the state filter
Mutant_get_todo_plans_any_state(s, conv_id) ==
    Rows(SelectSeq(s, LAMBDA r : r.conv_id = conv_id))

Mem_get_todo_plans(s, conv_id) ==
    Rows(SelectSeq(s, LAMBDA r : r.conv_id = conv_id /\ r.state = "todo"))

\* complete_task that does not look at conv_id
Mutant_complete_task_any_conv(s, conv_id, task_num, result) ==
    Done([i \in DOMAIN s |->
        LET r == s[i]
        IN  IF r.sub_task_num = task_num
            THEN [r EXCEPT !.state = PilotStatusCOMPLETED, !.result = result]
            ELSE r])

\* complete_task that sets the state and leaves the result as it was
Mutant_complete_task_keeps_result(s, conv_id, task_num, result) ==
    Done([i \in DOMAIN s |->
        LET r == s[i]
        IN  IF r.conv_id = conv_id /\ r.sub_task_num = task_num
            THEN [r EXCEPT !.state = PilotStatusCOMPLETED]
            ELSE r])

Mem_complete_task(s, conv_id, task_num, result) ==
    Done([i \in DOMAIN s |->
        LET r == s[i]
        IN  IF r.conv_id = conv_id /\ r.sub_task_num = task_num
            THEN [r EXCEPT !.state = PilotStatusCOMPLETED, !.result = result]
            ELSE r])

\* update_task that leaves retry_times as it was
Mutant_update_task_keeps_retry(s, conv_id, task_num, state, retry_times, agent, model) ==
    Done([i \in DOMAIN s |->
        LET r == s[i]
        IN  IF r.conv_id = conv_id /\ r.sub_task_num = task_num
            THEN [r EXCEPT !.state = state,
                  !.sub_task_agent = agent, !.agent_model = model]
            ELSE r])

\* update_task that does not look at task_num
Mutant_update_task_any_num(s, conv_id, task_num, state, retry_times, agent, model) ==
    Done([i \in DOMAIN s |->
        LET r == s[i]
        IN  IF r.conv_id = conv_id
            THEN [r EXCEPT !.state = state, !.retry_times = retry_times,
                  !.sub_task_agent = agent, !.agent_model = model]
            ELSE r])

Mem_update_task(s, conv_id, task_num, state, retry_times, agent, model) ==
    Done([i \in DOMAIN s |->
        LET r == s[i]
        IN  IF r.conv_id = conv_id /\ r.sub_task_num = task_num
            THEN [r EXCEPT !.state = state, !.retry_times = retry_times,
                  !.sub_task_agent = agent, !.agent_model = model]
            ELSE r])

\* remove_by_conv_id that deletes nothing
Mutant_remove_by_conv_id_keeps(s, conv_id) == Done(s)

Mem_remove_by_conv_id(s, conv_id) ==
    Done(SelectSeq(s, LAMBDA r : r.conv_id # conv_id))

-----------------------------------------------------------------------------
(* memory.plans_memory: the calls as the planner and the manager make them *)

batch_save(b, s, plans) ==
    IF b = BackendDao THEN Dao_batch_save(s, plans) ELSE Mem_batch_save(s, plans)

get_by_conv_id(b, s, conv_id) ==
    IF b = BackendDao THEN Dao_get_by_conv_id(s, conv_id) ELSE Mem_get_by_conv_id(s, conv_id)

get_by_conv_id_and_num(b, s, conv_id, task_nums) ==
    IF b = BackendDao THEN Dao_get_by_conv_id_and_num(s, conv_id, task_nums)
    ELSE Mem_get_by_conv_id_and_num(s, conv_id, task_nums)

get_todo_plans(b, s, conv_id) ==
    IF b = BackendDao THEN Dao_get_todo_plans(s, conv_id) ELSE Mem_get_todo_plans(s, conv_id)

complete_task(b, s, conv_id, task_num, result) ==
    IF b = BackendDao THEN Dao_complete_task(s, conv_id, task_num, result)
    ELSE Mem_complete_task(s, conv_id, task_num, result)

\* update_task(conv_id, task_num, state, retry_times, agent, model): six positional
\* arguments; the relational result parameter keeps its default None
update_task(b, s, conv_id, task_num, state, retry_times, agent, model) ==
    IF b = BackendDao
    THEN Dao_update_task(s, conv_id, task_num, state, retry_times, agent, model, None)
    ELSE Mem_update_task(s, conv_id, task_num, state, retry_times, agent, model)

remove_by_conv_id(b, s, conv_id) ==
    IF b = BackendDao THEN Dao_remove_by_conv_id(s, conv_id) ELSE Mem_remove_by_conv_id(s, conv_id)

-----------------------------------------------------------------------------
(* PlannerAgent._a_planning *)

\* what find_json_objects returns for a planner reply: a sequence of JSON arrays,
\* each a sequence of items
Contents == <<"t1", "t2", "t3", "t4">>

\* a JSON object of the array; dict is false for an element that is no JSON object
Item(serial_number, rely, i) ==
    [serial_number |-> serial_number, agent |-> "Alpha", content |-> Contents[i],
     rely |-> rely, resource |-> None, dict |-> TRUE]

\* serial numbers of a plan of n items: 1..n in order, n..1, or all the same
Numberings(n) == {[i \in 1..n |-> i], [i \in 1..n |-> n + 1 - i], [i \in 1..n |-> 1]}

\* rely of the items of a plan of n items: none; each on the serial number before
\* its position; the first on serial number n + 1; the last on "1,2"
RelyPatterns(n) ==
    {[i \in 1..n |-> <<>>],
     [i \in 1..n |-> IF i > 1 THEN <<i - 1>> ELSE <<>>],
     [i \in 1..n |-> IF i = 1 THEN <<n + 1>> ELSE <<>>],
     [i \in 1..n |-> IF i = n THEN <<1, 2>> ELSE <<>>]}

PlanJsons ==
    UNION {{[i \in 1..n |-> Item(IF k = "int" THEN IntNum(nums[i]) ELSE StrNum(nums[i]),
                                relys[i], i)] :
               nums \in Numberings(n), relys \in RelyPatterns(n)} :
           n \in 0..MaxPlanLen, k \in {"int", "str"}}

PlannerReplies ==
    {<<>>} \cup {<<plan>> : plan \in PlanJsons}
           \cup {<<<<Item(StrNum(1), <<>>, 1)>>, <<Item(StrNum(1), <<>>, 1)>>>>}

\* plan objects whose title is left unset
Mutant_PlanObjects_untitled(conv_id, json, max_retry) ==
    [i \in DOMAIN json |->
        [GptsPlan(conv_id, json[i].serial_number, json[i].content) EXCEPT
            !.sub_task_title = "",
            !.max_retry_times = max_retry,
            !.sub_task_agent = json[i].agent,
            !.rely = json[i].rely]]

\* lines 149-158: one GptsPlan per item; plan.status is no field of GptsPlan,
\* the state of the stored row is the one GptsPlan gives it
PlanObjects(conv_id, json, max_retry) ==
    [i \in DOMAIN json |->
        [GptsPlan(conv_id, json[i].serial_number, json[i].content) EXCEPT
            !.resource_name = json[i].resource,
            !.max_retry_times = max_retry,
            !.sub_task_agent = json[i].agent,
            !.sub_task_title = json[i].content,
            !.rely = json[i].rely,
            !.retry_times = 0]]

\* what the content of the planner's reply is: the fail_reason text or the
\* numbered list of the items' contents
ContentFailReason == "fail_reason"
ContentSummary == "summary"

\* _a_planning that deletes the stored plan before it looks at the reply
Mutant_a_planning_deletes_first(b, s, conv_id, json_objects, max_retry) ==
    LET removed == remove_by_conv_id(b, s, conv_id).store
    IN  IF Len(json_objects) # 1
        THEN [raised |-> FALSE, store |-> removed, is_exe_success |-> FALSE,
              content |-> ContentFailReason]
        ELSE LET saved == batch_save(b, removed,
                                     PlanObjects(conv_id, json_objects[1], max_retry))
             IN  [raised |-> saved.raised, store |-> saved.store,
                  is_exe_success |-> ~saved.raised,
                  content |-> IF saved.raised THEN None ELSE ContentSummary]

\* _a_planning that replaces the stored plan also when the array has no item
Mutant_a_planning_saves_empty(b, s, conv_id, json_objects, max_retry) ==
    IF Len(json_objects) # 1
    THEN [raised |-> FALSE, store |-> s, is_exe_success |-> FALSE,
          content |-> ContentFailReason]
    ELSE LET removed == remove_by_conv_id(b, s, conv_id).store
             saved == batch_save(b, removed,
                                 PlanObjects(conv_id, json_objects[1], max_retry))
         IN  [raised |-> saved.raised, store |-> saved.store,
              is_exe_success |-> ~saved.raised,
              content |-> IF saved.raised THEN None ELSE ContentSummary]

\* the outcome of _a_planning: the store after it, whether it raised, and the
\* is_exe_success and content of its reply
a_planning(b, s, conv_id, json_objects, max_retry) ==
    IF Len(json_objects) # 1
    THEN [raised |-> FALSE, store |-> s, is_exe_success |-> FALSE,
          content |-> ContentFailReason]
    ELSE IF \E i \in DOMAIN json_objects[1] : ~json_objects[1][i].dict
    THEN \* item.get raises AttributeError: the except branch of lines 159-161
         [raised |-> FALSE, store |-> s, is_exe_success |-> FALSE,
          content |-> ContentFailReason]
    ELSE LET plan_objects == PlanObjects(conv_id, json_objects[1], max_retry)
         IN  IF Len(plan_objects) > 0
             THEN LET removed == remove_by_conv_id(b, s, conv_id).store
                      saved == batch_save(b, removed, plan_objects)
                  IN  [raised |-> saved.raised, store |-> saved.store,
                       is_exe_success |-> ~saved.raised,
                       content |-> IF saved.raised THEN None ELSE ContentSummary]
             ELSE [raised |-> FALSE, store |-> s, is_exe_success |-> TRUE,
                   content |-> ContentSummary]

-----------------------------------------------------------------------------
(* PlanChat: speaker selection *)

\* PlanChat.agents (names, in registration order)
agent_names == <<"Alpha", "Beta">>

\* the PlanChat fields a_select_speaker reads, and their dataclass defaults
VALID_SPEAKER_SELECTION_METHODS == {"auto", "manual", "random", "round_robin"}
PlanChatDefaults == [admin_name |-> "Admin", speaker_selection_method |-> "auto",
                     allow_repeat_speaker |-> TRUE]
admin_name == groupchat.admin_name
speaker_selection_method == groupchat.speaker_selection_method
allow_repeat_speaker == groupchat.allow_repeat_speaker

IndexOf(seq, x) == CHOOSE i \in DOMAIN seq : seq[i] = x

\* outcome of a call that returns an agent or raises
Agent(name) == [raised |-> FALSE, agent |-> name]
RaisedAgent == [raised |-> TRUE, agent |-> None]

\* next_agent(agent, agents): agent_names.index raises ValueError for a stranger
next_agent(agent, agents) ==
    IF agent \notin Range(agent_names) THEN RaisedAgent
    ELSE IF agents = agent_names
    THEN Agent(agents[((IndexOf(agent_names, agent) + 1 - 1) % Len(agents)) + 1])
    ELSE LET offset == IndexOf(agent_names, agent)   \* 0-based index + 1
             hits == {i \in 0..(Len(agent_names) - 1) :
                        agent_names[((offset + i) % Len(agent_names)) + 1] \in Range(agents)}
         IN  IF hits = {} THEN Agent(None)
             ELSE LET i == CHOOSE h \in hits : \A g \in hits : h <= g
                  IN  Agent(agent_names[((offset + i) % Len(agent_names)) + 1])

\* A model reply is a sequence of pieces: an agent name, "w" (a run of other word
\* characters) or " " (a run of characters that are not word characters).
\* (?<=\W) and (?=\W) on the reply padded with a blank at both ends
NonWord(message_content, i) ==
    i \notin DOMAIN message_content \/ message_content[i] = " "

\* mentions counted wherever the name occurs, inside longer words too
Mutant_mentioned_agents_anywhere(message_content, agents) ==
    {a \in Range(agents) : \E i \in DOMAIN message_content : message_content[i] = a}

\* the names with at least one match of (?<=\W)name(?=\W)
mentioned_agents(message_content, agents) ==
    {a \in Range(agents) :
        \E i \in DOMAIN message_content :
            /\ message_content[i] = a
            /\ NonWord(message_content, i - 1)
            /\ NonWord(message_content, i + 1)}

\* agent_by_name(name): agent_names.index(name), ValueError when name is no agent name
IsAgentName(name) == Len(name) = 1 /\ name[1] \in Range(agent_names)

a_select_speaker(last_speaker, final, name) ==
    LET agents == IF allow_repeat_speaker THEN agent_names
                  ELSE SelectSeq(agent_names, LAMBDA a : a # last_speaker)
        mentions == mentioned_agents(name, agents)
    IN  IF speaker_selection_method \notin VALID_SPEAKER_SELECTION_METHODS
        THEN RaisedAgent   \* ValueError
        ELSE IF ~final THEN next_agent(last_speaker, agents)
        ELSE IF Cardinality(mentions) = 1 THEN Agent(CHOOSE a \in mentions : TRUE)
        ELSE IF IsAgentName(name) THEN Agent(name[1])
        ELSE RaisedAgent   \* the except clause reads the unbound name e: NameError

\* "Alpha", "Beta", "I choose Beta for this.", "Alpha and Beta both work",
\* "Alphabet", "Beta, Beta", "notBeta Alpha", ""
SelectorReplies ==
    {<<"Alpha">>, <<"Beta">>, <<"w", " ", "Beta", " ", "w", " ">>,
     <<"Alpha", " ", "w", " ", "Beta", " ", "w">>, <<"Alpha", "w">>,
     <<"Beta", " ", "Beta">>, <<"w", "Beta", " ", "Alpha">>, <<>>}

Senders == {"User"} \cup Range(agent_names)

-----------------------------------------------------------------------------
(* PlanChatManager *)

\* the conversation of the manager's agent_context
conv == "c1"

NoTurn == [sent |-> "none", to |-> None, planned |-> FALSE, todo |-> <<>>, rely |-> <<>>,
           error |-> "none", sender |-> None, interrupt |-> "none"]
NoDispatch == [to |-> None, content |-> None, plan_task |-> None,
               plan_task_num |-> IntNum(0), use_cache |-> TRUE,
               rely_messages |-> <<>>, dialogue_memory_rounds |-> 0]
NoReply == [shape |-> "none", task_num |-> IntNum(0), is_exe_success |-> FALSE,
            check_succ |-> FALSE, from |-> None]

\* a_process_rely_message: the turns appended to the speaker and the window it is
\* given (0: dialogue_memory_rounds is left as it was)
a_process_rely_message(b, s, conv_id, now_plan) ==
    IF Len(now_plan.rely) > 0
    THEN LET got == get_by_conv_id_and_num(b, s, conv_id, RelySplit(now_plan.rely))
             rely_tasks == got.rows
         IN  [raised |-> got.raised,
              rely_messages |->
                  [i \in 1..(2 * Len(rely_tasks)) |->
                      IF i % 2 = 1
                      THEN [role |-> "user", content |-> rely_tasks[(i + 1) \div 2].sub_task_content]
                      ELSE [role |-> "assistant", content |-> rely_tasks[i \div 2].result]],
              dialogue_memory_rounds |->
                  IF Len(rely_tasks) > 0 THEN Len(rely_tasks) * 2 + 2 ELSE 0]
    ELSE [raised |-> FALSE, rely_messages |-> <<>>, dialogue_memory_rounds |-> 0]

TaskNumsOf(rows) == [i \in DOMAIN rows |-> rows[i].sub_task_num]

\* an exception leaves a_run_chat; error names the call that raised it
Crash(s, planned, error) ==
    /\ store' = s
    /\ pc' = "crashed"
    /\ turn' = [NoTurn EXCEPT !.sent = "error", !.planned = planned, !.error = error]
    /\ dispatch' = NoDispatch

\* use_cache switched off from the first retry on
Mutant_use_cache_off_after_one(now_plan) == ~(now_plan.retry_times > 0)

\* lines 347-349: use_cache of the dispatch context
use_cache(now_plan) == ~(now_plan.retry_times > 1)

\* a_run_chat that sends TERMINATE whatever get_todo_plans returns
Mutant_RunChatTodo_terminates(s, planned, sender, final, name) ==
    /\ store' = s
    /\ pc' = "terminated"
    /\ turn' = [NoTurn EXCEPT !.sent = "TERMINATE", !.to = sender,
                              !.planned = planned, !.sender = sender]
    /\ dispatch' = NoDispatch

\* a_run_chat, lines 331-370, on the store s left by lines 327-330
RunChatTodo(s, planned, sender, final, name) ==
    LET todo == get_todo_plans(backend, s, conv)
        todo_plans == todo.rows
    IN  IF todo.raised THEN Crash(s, planned, "get_todo_plans")
        ELSE IF Len(todo_plans) <= 0
        THEN /\ store' = s
             /\ pc' = "terminated"
             /\ turn' = [NoTurn EXCEPT !.sent = "TERMINATE", !.to = sender,
                                       !.planned = planned, !.sender = sender]
             /\ dispatch' = NoDispatch
        ELSE LET now_plan == todo_plans[1]
                 speaker == a_select_speaker(sender, final, name)
                 rely == a_process_rely_message(backend, s, conv, now_plan)
             IN  IF speaker.raised THEN Crash(s, planned, "a_select_speaker")
                 ELSE IF rely.raised THEN Crash(s, planned, "a_process_rely_message")
                 ELSE IF speaker.agent = None THEN Crash(s, planned, "a_send")
                 ELSE /\ store' = s
                      /\ pc' = "dispatched"
                      /\ turn' = [NoTurn EXCEPT !.sent = "dispatch", !.to = speaker.agent,
                                  !.planned = planned, !.todo = TaskNumsOf(todo_plans),
                                  !.rely = now_plan.rely, !.sender = sender]
                      /\ dispatch' =
                            [to |-> speaker.agent,
                             content |-> now_plan.sub_task_content,
                             plan_task |-> now_plan.sub_task_content,
                             plan_task_num |-> now_plan.sub_task_num,
                             use_cache |-> use_cache(now_plan),
                             rely_messages |-> rely.rely_messages,
                             dialogue_memory_rounds |-> rely.dialogue_memory_rounds]

\* a_run_chat with no plan stored: the planner is asked first (lines 327-330)
RunChatPlan ==
    /\ pc = "idle"
    /\ Len(get_by_conv_id(backend, store, conv).rows) <= 0
    /\ \E json_objects \in PlannerReplies, sender \in Senders,
          final \in BOOLEAN, name \in SelectorReplies :
          LET planning == a_planning(backend, store, conv, json_objects, max_retry_round)
          IN  IF planning.raised
              THEN Crash(planning.store, TRUE, "_a_planning")
              ELSE RunChatTodo(planning.store, TRUE, sender, final, name)
    /\ UNCHANGED <<handlers, backend, groupchat, max_retry_round, reply, messages, last>>

\* a_run_chat with a plan stored
RunChat ==
    /\ pc = "idle"
    /\ Len(get_by_conv_id(backend, store, conv).rows) > 0
    /\ \E sender \in Senders, final \in BOOLEAN, name \in SelectorReplies :
          RunChatTodo(store, FALSE, sender, final, name)
    /\ UNCHANGED <<handlers, backend, groupchat, max_retry_round, reply, messages, last>>

\* the calls of the try block of a_run_chat (lines 341-355) during which a
\* KeyboardInterrupt can be raised
InterruptPoints == {"a_select_speaker", "a_process_rely_message", "a_send"}

\* a_run_chat with a plan stored and a KeyboardInterrupt raised in the try block at
\* point: the handler of lines 356-368. use_cache is bound at line 347, after
\* a_select_speaker and a_process_rely_message; the handler reads it at line 364
RunChatInterrupted ==
    /\ pc = "idle"
    /\ Len(get_by_conv_id(backend, store, conv).rows) > 0
    /\ \E sender \in Senders, final \in BOOLEAN, name \in SelectorReplies,
          point \in InterruptPoints :
          LET todo == get_todo_plans(backend, store, conv)
              todo_plans == todo.rows
              now_plan == todo_plans[1]
              speaker == a_select_speaker(sender, final, name)
              rely == a_process_rely_message(backend, store, conv, now_plan)
              interrupted == [NoTurn EXCEPT !.todo = TaskNumsOf(todo_plans),
                                            !.rely = now_plan.rely, !.sender = sender,
                                            !.interrupt = point]
          IN  /\ ~todo.raised /\ Len(todo_plans) > 0
              /\ point # "a_select_speaker" => ~speaker.raised
              /\ point = "a_send" => (~rely.raised /\ speaker.agent # None)
              /\ store' = store
              /\ IF admin_name \notin Range(agent_names)
                 THEN \* raise: the KeyboardInterrupt leaves a_run_chat
                      /\ pc' = "crashed"
                      /\ turn' = [interrupted EXCEPT !.sent = "error",
                                                     !.error = "KeyboardInterrupt"]
                      /\ dispatch' = NoDispatch
                 ELSE IF point # "a_send"
                 THEN \* use_cache is read before it was bound: UnboundLocalError
                      /\ pc' = "crashed"
                      /\ turn' = [interrupted EXCEPT !.sent = "error",
                                                     !.error = "UnboundLocalError"]
                      /\ dispatch' = NoDispatch
                 ELSE /\ pc' = "dispatched"
                      /\ turn' = [interrupted EXCEPT !.sent = "dispatch", !.to = admin_name]
                      /\ dispatch' =
                            [to |-> admin_name,
                             content |-> now_plan.sub_task_content,
                             plan_task |-> now_plan.sub_task_content,
                             plan_task_num |-> now_plan.sub_task_num,
                             use_cache |-> use_cache(now_plan),
                             rely_messages |-> <<>>,
                             dialogue_memory_rounds |-> 0]
    /\ UNCHANGED <<handlers, backend, groupchat, max_retry_round, reply, messages, last>>

\* the row a_generate_reply takes as run_plan: the first of get_by_conv_id whose
\* sub_task_num equals (Python ==) the plan_task_num of the context
RunPlanIndex(all_plans, last_task_num) ==
    {i \in DOMAIN all_plans : all_plans[i].sub_task_num = last_task_num}

CheckFailed == "plan result check faild"
ReportContent == "done"

\* what the plan store holds for a task of the conversation: the status and
\* retry_times of its rows
TaskView(s, task_num) ==
    LET rows == SelectSeq(s, LAMBDA r : r.conv_id = conv /\ r.sub_task_num = task_num)
    IN  [i \in DOMAIN rows |-> [state |-> rows[i].state, retry_times |-> rows[i].retry_times]]

\* an entry of PlanChat.messages carries the name of the sender (line 291) and, as
\* task, what the plan store holds for the task of the reply at the time of the
\* append (line 292, which comes after the store calls of lines 282-288)
\* a_generate_reply on the reply of the dispatched speaker. shape: what the message
\* carries (context, plan_task_num in it, action_report)
ReplyShapes == {"report", "no_context", "no_task_num", "no_report"}

\* a_generate_reply that records a failure for every message it receives
Mutant_GenerateReply_always_updates(shapes) ==
    /\ pc = "dispatched"
    /\ \E shape \in shapes :
          LET sender == dispatch.to
              last_task_num == dispatch.plan_task_num
              all_plans == get_by_conv_id(backend, store, conv).rows
              found == RunPlanIndex(all_plans, last_task_num)
              run_plan == all_plans[CHOOSE i \in found : \A j \in found : i <= j]
          IN  /\ found # {}
              /\ pc' = "idle"
              /\ store' = update_task(backend, store, conv, last_task_num, StatusRUNNING,
                                      run_plan.retry_times + 1, sender, "").store
              /\ messages' = Append(messages,
                                 [name |-> sender, shape |-> shape,
                                  task |-> TaskView(store', last_task_num)])
              /\ reply' = [shape |-> shape, task_num |-> last_task_num,
                           is_exe_success |-> FALSE, check_succ |-> FALSE,
                           from |-> sender]
    /\ UNCHANGED <<handlers, backend, groupchat, max_retry_round, turn, dispatch, last>>

GenerateReplyShaped(shapes) ==
    /\ pc = "dispatched"
    /\ \E shape \in shapes,
          is_exe_success \in BOOLEAN, check_succ \in BOOLEAN :
          LET sender == dispatch.to
              last_task_num == dispatch.plan_task_num
              all_plans == get_by_conv_id(backend, store, conv).rows
              found == RunPlanIndex(all_plans, last_task_num)
              run_plan == all_plans[CHOOSE i \in found : \A j \in found : i <= j]
              handled == shape = "report" /\ Truthy(last_task_num)
          IN  /\ shape # "report" => (~is_exe_success /\ ~check_succ)
              /\ ~is_exe_success => ~check_succ
              /\ IF handled /\ found = {}
                 THEN /\ pc' = "crashed"     \* run_plan is None: AttributeError
                      /\ UNCHANGED <<store, messages>>
                 ELSE /\ pc' = "idle"
                      /\ store' =
                            IF ~handled THEN store
                            ELSE IF is_exe_success /\ check_succ
                            THEN complete_task(backend, store, conv, last_task_num,
                                               ReportContent).store
                            ELSE IF is_exe_success
                            THEN update_task(backend, store, conv, last_task_num,
                                             StatusRUNNING, run_plan.retry_times + 1,
                                             sender, CheckFailed).store
                            ELSE update_task(backend, store, conv, last_task_num,
                                             StatusRUNNING, run_plan.retry_times + 1,
                                             sender, "").store
                      /\ messages' = Append(messages,
                                         [name |-> sender, shape |-> shape,
                                          task |-> TaskView(store', last_task_num)])
              /\ reply' = [shape |-> shape, task_num |-> last_task_num,
                           is_exe_success |-> is_exe_success, check_succ |-> check_succ,
                           from |-> sender]
    /\ UNCHANGED <<handlers, backend, groupchat, max_retry_round, turn, dispatch, last>>

\* the reply of an executor to a dispatch carries the context and an action report
GenerateReply == GenerateReplyShaped({"report"})

-----------------------------------------------------------------------------
(* The run of one conversation *)

NoCall == [op |-> "none", conv_id |-> None, plans |-> <<>>, task_nums |-> <<>>,
           raised |-> FALSE, rows |-> <<>>, had |-> 0,
           last_speaker |-> None, final |-> FALSE, name |-> <<>>, agent |-> None,
           json_objects |-> <<>>, is_exe_success |-> FALSE, content |-> None]

\* a plan another conversation left in the store
OtherPlan == <<[GptsPlan("c2", IntNum(1), "other") EXCEPT !.sub_task_title = "other"]>>

Init ==
    /\ backend \in Backends
    /\ groupchat = PlanChatDefaults
    /\ max_retry_round \in 0..MaxRetryRound
    /\ store \in {<<>>, OtherPlan}
    /\ pc = "idle"
    /\ turn = NoTurn
    /\ dispatch = NoDispatch
    /\ reply = NoReply
    /\ messages = <<>>
    /\ last = NoCall
    /\ handlers = <<>>

Next == RunChatPlan \/ RunChat \/ GenerateReply

Spec == Init /\ [][Next]_vars

\* every turn the manager can take is taken
FairSpec == Spec /\ WF_vars(Next)

-----------------------------------------------------------------------------
(* The plan store used directly: any sequence of calls of its API *)

StoreNums == {IntNum(1), StrNum(1), IntNum(2)}

StoreRows ==
    {[GptsPlan(c, n, Contents[n.n]) EXCEPT !.sub_task_title = Contents[n.n]] :
        c \in Convs, n \in StoreNums}
    \cup {[GptsPlan("c1", IntNum(2), "t2") EXCEPT !.sub_task_title = "t2",
              !.state = StatusCOMPLETE, !.result = ReportContent, !.retry_times = 1]}

\* the plans handed to batch_save: one or two subtasks of one conversation
StorePlans ==
    {<<r>> : r \in StoreRows}
    \cup {p \in {<<r1, r2>> : r1 \in StoreRows, r2 \in StoreRows} :
                p[1].conv_id = p[2].conv_id}

RowsOfConv(s, conv_id) == Len(SelectSeq(s, LAMBDA r : r.conv_id = conv_id))

StoreFrame == UNCHANGED <<handlers, backend, groupchat, max_retry_round, pc, turn, dispatch, reply, messages>>

StoreInit ==
    /\ backend \in Backends
    /\ groupchat = PlanChatDefaults
    /\ max_retry_round = 0
    /\ store = <<>>
    /\ pc = "idle"
    /\ turn = NoTurn
    /\ dispatch = NoDispatch
    /\ reply = NoReply
    /\ messages = <<>>
    /\ last = NoCall
    /\ handlers = <<>>

CallBatchSave ==
    /\ StoreFrame
    /\ \E plans \in StorePlans :
           LET out == batch_save(backend, store, plans)
           IN  /\ Len(store) + Len(plans) <= MaxRows
               /\ store' = out.store
               /\ last' = [NoCall EXCEPT !.op = "batch_save", !.conv_id = plans[1].conv_id,
                                         !.plans = plans, !.raised = out.raised,
                                         !.had = RowsOfConv(store, plans[1].conv_id)]

CallRemoveByConvId ==
    /\ StoreFrame
    /\ \E c \in Convs :
           LET out == remove_by_conv_id(backend, store, c)
           IN  /\ store' = out.store
               /\ last' = [NoCall EXCEPT !.op = "remove_by_conv_id", !.conv_id = c,
                                         !.raised = out.raised, !.had = RowsOfConv(store, c)]

\* remove_by_conv_id(c) followed by batch_save(P), as _a_planning does (lines 166-167)
CallReplacePlan ==
    /\ StoreFrame
    /\ \E plans \in StorePlans :
           LET c == plans[1].conv_id
               removed == remove_by_conv_id(backend, store, c)
               out == batch_save(backend, removed.store, plans)
           IN  /\ Len(removed.store) + Len(plans) <= MaxRows
               /\ store' = out.store
               /\ last' = [NoCall EXCEPT !.op = "replace", !.conv_id = c, !.plans = plans,
                                         !.raised = out.raised, !.had = RowsOfConv(store, c)]

CallGetByConvId ==
    /\ StoreFrame
    /\ \E c \in Convs :
           LET out == get_by_conv_id(backend, store, c)
           IN  /\ store' = store
               /\ last' = [NoCall EXCEPT !.op = "get_by_conv_id", !.conv_id = c,
                                         !.raised = out.raised, !.rows = out.rows,
                                         !.had = RowsOfConv(store, c)]

CallGetByConvIdAndNum ==
    /\ StoreFrame
    /\ \E c \in Convs, n \in StoreNums :
           LET out == get_by_conv_id_and_num(backend, store, c, <<n>>)
           IN  /\ store' = store
               /\ last' = [NoCall EXCEPT !.op = "get_by_conv_id_and_num", !.conv_id = c,
                                         !.task_nums = <<n>>, !.raised = out.raised,
                                         !.rows = out.rows, !.had = RowsOfConv(store, c)]

StoreNext ==
    \/ CallBatchSave
    \/ CallRemoveByConvId
    \/ CallReplacePlan
    \/ CallGetByConvId
    \/ CallGetByConvIdAndNum

StoreSpec == StoreInit /\ [][StoreNext]_vars

-----------------------------------------------------------------------------
(* PlannerAgent._a_planning on every reply of the model, whatever plan is stored *)

PlanInit ==
    /\ backend \in Backends
    /\ groupchat = PlanChatDefaults
    /\ max_retry_round \in 0..MaxRetryRound
    /\ store \in {<<>>, OtherPlan}
    /\ pc = "idle"
    /\ turn = NoTurn
    /\ dispatch = NoDispatch
    /\ reply = NoReply
    /\ messages = <<>>
    /\ last = NoCall
    /\ handlers = <<>>

CallPlanning ==
    /\ \E json_objects \in PlannerReplies :
           LET out == a_planning(backend, store, conv, json_objects, max_retry_round)
           IN  /\ store' = out.store
               /\ last' = [NoCall EXCEPT !.op = "_a_planning", !.conv_id = conv,
                                         !.json_objects = json_objects,
                                         !.raised = out.raised,
                                         !.is_exe_success = out.is_exe_success,
                                         !.content = out.content,
                                         !.had = RowsOfConv(store, conv)]
    /\ UNCHANGED <<handlers, backend, groupchat, max_retry_round, pc, turn, dispatch, reply, messages>>

PlanNext == CallPlanning

PlanSpec == PlanInit /\ [][PlanNext]_vars

-----------------------------------------------------------------------------
(* PlannerAgent._a_planning on replies whose single array has an item that does *)
(* not map to a subtask                                                         *)

\* an item without the key content, an item without the key serial_number, and an
\* element that is a string
MalformedItems ==
    {[Item(IntNum(2), <<>>, 2) EXCEPT !.content = None],
     Item(NoneNum, <<>>, 2),
     [Item(NoneNum, <<>>, 2) EXCEPT !.dict = FALSE]}

\* the malformed item alone, after a well-formed item, or before one
MalformedReplies ==
    {<<<<bad>>>> : bad \in MalformedItems}
    \cup {<<<<Item(IntNum(1), <<>>, 1), bad>>>> : bad \in MalformedItems}
    \cup {<<<<bad, Item(IntNum(1), <<>>, 1)>>>> : bad \in MalformedItems}

CallMalformedPlanning ==
    /\ \E json_objects \in MalformedReplies :
           LET out == a_planning(backend, store, conv, json_objects, max_retry_round)
           IN  /\ store' = out.store
               /\ last' = [NoCall EXCEPT !.op = "_a_planning", !.conv_id = conv,
                                         !.json_objects = json_objects,
                                         !.raised = out.raised,
                                         !.is_exe_success = out.is_exe_success,
                                         !.content = out.content,
                                         !.had = RowsOfConv(store, conv)]
    /\ UNCHANGED <<handlers, backend, groupchat, max_retry_round, pc, turn, dispatch, reply, messages>>

MalformedNext == CallPlanning \/ CallMalformedPlanning

MalformedSpec == PlanInit /\ [][MalformedNext]_vars

-----------------------------------------------------------------------------
(* One plan store under the runs of two conversations: every step is a call one *)
(* of the runs makes, with its own conv_id                                      *)

\* the plans the two planners persist: one subtask, or two with numbers 1 and 2
SharedReplies ==
    {<<<<Item(IntNum(1), <<>>, 1)>>>>,
     <<<<Item(IntNum(1), <<>>, 1), Item(IntNum(2), <<1>>, 2)>>>>}

SharedNums == {IntNum(1), IntNum(2)}

SharedFrame ==
    UNCHANGED <<handlers, backend, groupchat, max_retry_round, pc, turn, dispatch, reply, messages>>

\* _a_planning of the conversation's planner
SharedPlanning ==
    /\ SharedFrame
    /\ \E c \in Convs, json_objects \in SharedReplies :
           LET out == a_planning(backend, store, c, json_objects, max_retry_round)
           IN  /\ store' = out.store
               /\ last' = [NoCall EXCEPT !.op = "_a_planning", !.conv_id = c,
                                         !.json_objects = json_objects,
                                         !.raised = out.raised,
                                         !.is_exe_success = out.is_exe_success,
                                         !.content = out.content,
                                         !.had = RowsOfConv(store, c)]

\* a_generate_reply of the conversation's manager on a successful report
SharedCompleteTask ==
    /\ SharedFrame
    /\ \E c \in Convs, n \in SharedNums :
           LET out == complete_task(backend, store, c, n, ReportContent)
           IN  /\ store' = out.store
               /\ last' = [NoCall EXCEPT !.op = "complete_task", !.conv_id = c,
                                         !.task_nums = <<n>>, !.raised = out.raised,
                                         !.had = RowsOfConv(store, c)]

\* a_generate_reply of the conversation's manager on a failed report of agent Beta
\* for a subtask that was dispatched (one get_todo_plans returns: state 'todo')
SharedUpdateTask ==
    /\ SharedFrame
    /\ \E c \in Convs, n \in SharedNums, agent \in {"Beta"} :
           LET all_plans == get_by_conv_id(backend, store, c).rows
               found == RunPlanIndex(all_plans, n)
               run_plan == all_plans[CHOOSE i \in found : \A j \in found : i <= j]
               out == update_task(backend, store, c, n, StatusRUNNING,
                                  run_plan.retry_times + 1, agent, "")
           IN  /\ found # {}
               /\ run_plan.state = StatusTODO
               /\ store' = out.store
               /\ last' = [NoCall EXCEPT !.op = "update_task", !.conv_id = c,
                                         !.task_nums = <<n>>, !.raised = out.raised,
                                         !.had = RowsOfConv(store, c)]

SharedRemoveByConvId ==
    /\ SharedFrame
    /\ \E c \in Convs :
           LET out == remove_by_conv_id(backend, store, c)
           IN  /\ store' = out.store
               /\ last' = [NoCall EXCEPT !.op = "remove_by_conv_id", !.conv_id = c,
                                         !.raised = out.raised, !.had = RowsOfConv(store, c)]

SharedNext ==
    \/ SharedPlanning
    \/ SharedCompleteTask
    \/ SharedUpdateTask
    \/ SharedRemoveByConvId

SharedSpec == StoreInit /\ [][SharedNext]_vars

-----------------------------------------------------------------------------
(* The manager started on a plan that is already stored: the rows were written *)
(* through the plan store before the run, with any status and retry_times      *)

ResumeStates == {StatusTODO, StatusRUNNING, StatusCOMPLETE}
ResumeRetries == 0..(MaxRetryRound + 2)

ResumeInit ==
    /\ backend \in Backends
    /\ groupchat = PlanChatDefaults
    /\ max_retry_round = MaxRetryRound
    /\ \E json_objects \in SharedReplies,
          st1 \in ResumeStates, st2 \in ResumeStates,
          r1 \in ResumeRetries, r2 \in ResumeRetries :
          LET s0 == a_planning(backend, <<>>, conv, json_objects, max_retry_round).store
              s1 == update_task(backend, s0, conv, IntNum(1), st1, r1, "Alpha", None).store
              s2 == update_task(backend, s1, conv, IntNum(2), st2, r2, "Alpha", None).store
          IN  store = s2
    /\ pc = "idle"
    /\ turn = NoTurn
    /\ dispatch = NoDispatch
    /\ reply = NoReply
    /\ messages = <<>>
    /\ last = NoCall
    /\ handlers = <<>>

ResumeNext == RunChat \/ GenerateReply

ResumeSpec == ResumeInit /\ [][ResumeNext]_vars

\* the scheduler is run again as long as it has a turn to take
ResumeFairSpec == ResumeSpec /\ WF_vars(ResumeNext)

-----------------------------------------------------------------------------
(* The manager started on a stored plan, with replies of every shape: with an   *)
(* action report, without a context, without plan_task_num, without a report    *)

ShapedInit ==
    /\ backend \in Backends
    /\ groupchat = PlanChatDefaults
    /\ max_retry_round = MaxRetryRound
    /\ \E json_objects \in SharedReplies :
          store = a_planning(backend, <<>>, conv, json_objects, max_retry_round).store
    /\ pc = "idle"
    /\ turn = NoTurn
    /\ dispatch = NoDispatch
    /\ reply = NoReply
    /\ messages = <<>>
    /\ last = NoCall
    /\ handlers = <<>>

\* a run is followed for MaxReplies replies
GenerateAnyReply ==
    /\ Len(messages) < MaxReplies
    /\ GenerateReplyShaped(ReplyShapes)

ShapedNext == RunChat \/ GenerateAnyReply

ShapedSpec == ShapedInit /\ [][ShapedNext]_vars

-----------------------------------------------------------------------------
(* The manager started on a stored plan, with turns that are interrupted from the *)
(* keyboard; the admin agent is registered (admin_name "Beta") or is not ("Admin") *)

AdminNames == {"Admin", "Beta"}

InterruptInit ==
    /\ backend \in Backends
    /\ groupchat \in [admin_name : AdminNames, speaker_selection_method : {"auto"},
                      allow_repeat_speaker : {TRUE}]
    /\ max_retry_round = MaxRetryRound
    /\ \E json_objects \in SharedReplies, r1 \in ResumeRetries :
          LET s0 == a_planning(backend, <<>>, conv, json_objects, max_retry_round).store
          IN  store = update_task(backend, s0, conv, IntNum(1), StatusTODO, r1,
                                  "Alpha", None).store
    /\ pc = "idle"
    /\ turn = NoTurn
    /\ dispatch = NoDispatch
    /\ reply = NoReply
    /\ messages = <<>>
    /\ last = NoCall
    /\ handlers = <<>>

InterruptNext == RunChat \/ RunChatInterrupted \/ GenerateReply

InterruptSpec == InterruptInit /\ [][InterruptNext]_vars

-----------------------------------------------------------------------------
(* Two replies for the same dispatched subtask, handled by two a_generate_reply *)
(* coroutines of the manager at the same time. A coroutine gives up control     *)
(* only at an await: the call of a_check_plan_expected (line 278)               *)

Handlers == {1, 2}

\* the subtask both replies are about (plan_task_num of their context)
ConcurrentTaskNum == IntNum(1)

ConcurrentInit ==
    /\ backend \in Backends
    /\ groupchat = PlanChatDefaults
    /\ max_retry_round \in 0..MaxRetryRound
    /\ \E json_objects \in SharedReplies :
          store = a_planning(backend, <<>>, conv, json_objects, max_retry_round).store
    /\ pc = "idle"
    /\ turn = NoTurn
    /\ dispatch = NoDispatch
    /\ reply = NoReply
    /\ messages = <<>>
    /\ last = NoCall
    /\ handlers \in [Handlers -> [pc : {"received"}, sender : Range(agent_names),
                                  is_exe_success : BOOLEAN, check_succ : {FALSE},
                                  retry_times : {0}]]

\* lines 265-277, and lines 286-293 when the report says is_exe_success=false:
\* run_plan is read, and without an await the retry update is made from it
ReplyRead(h) ==
    /\ handlers[h].pc = "received"
    /\ LET me == handlers[h]
           all_plans == get_by_conv_id(backend, store, conv).rows
           found == RunPlanIndex(all_plans, ConcurrentTaskNum)
           run_plan == all_plans[CHOOSE i \in found : \A j \in found : i <= j]
       IN  /\ found # {}
           /\ IF me.is_exe_success
              THEN /\ handlers' = [handlers EXCEPT ![h].pc = "checking",
                                                   ![h].retry_times = run_plan.retry_times]
                   /\ UNCHANGED <<store, messages>>
              ELSE /\ store' = update_task(backend, store, conv, ConcurrentTaskNum,
                                           StatusRUNNING, run_plan.retry_times + 1,
                                           me.sender, "").store
                   /\ messages' = Append(messages,
                                      [name |-> me.sender, shape |-> "report",
                                       task |-> TaskView(store', ConcurrentTaskNum)])
                   /\ handlers' = [handlers EXCEPT ![h].pc = "done",
                                                   ![h].retry_times = run_plan.retry_times]
    /\ UNCHANGED <<backend, groupchat, max_retry_round, pc, turn, dispatch, reply, last>>

\* lines 278-285 and 290-293: a_check_plan_expected has returned; the update uses
\* the run_plan that was read before the await
ReplyChecked(h) ==
    /\ handlers[h].pc = "checking"
    /\ \E check_succ \in BOOLEAN :
          LET me == handlers[h]
          IN  /\ store' =
                    IF check_succ
                    THEN complete_task(backend, store, conv, ConcurrentTaskNum,
                                       ReportContent).store
                    ELSE update_task(backend, store, conv, ConcurrentTaskNum,
                                     StatusRUNNING, me.retry_times + 1,
                                     me.sender, CheckFailed).store
              /\ messages' = Append(messages,
                                 [name |-> me.sender, shape |-> "report",
                                  task |-> TaskView(store', ConcurrentTaskNum)])
              /\ handlers' = [handlers EXCEPT ![h].pc = "done",
                                              ![h].check_succ = check_succ]
    /\ UNCHANGED <<backend, groupchat, max_retry_round, pc, turn, dispatch, reply, last>>

ConcurrentNext ==
    \/ \E h \in Handlers : ReplyRead(h)
    \/ \E h \in Handlers : ReplyChecked(h)

ConcurrentSpec == ConcurrentInit /\ [][ConcurrentNext]_vars

-----------------------------------------------------------------------------
(* PlanChat.a_select_speaker called directly, under any PlanChat configuration *)

SelectionMethods == {"auto", "round_robin", "fastest"}

SpeakerInit ==
    /\ backend = BackendMem
    /\ groupchat \in [admin_name : {"Admin"}, speaker_selection_method : SelectionMethods,
                      allow_repeat_speaker : BOOLEAN]
    /\ max_retry_round = 0
    /\ store = <<>>
    /\ pc = "idle"
    /\ turn = NoTurn
    /\ dispatch = NoDispatch
    /\ reply = NoReply
    /\ messages = <<>>
    /\ last = NoCall
    /\ handlers = <<>>

\* final is False when the selector produced no reply; there is no name then
CallSelectSpeaker ==
    /\ \E last_speaker \in Senders, final \in BOOLEAN, name \in SelectorReplies :
           LET out == a_select_speaker(last_speaker, final, name)
           IN  /\ ~final => name = <<>>
               /\ last' = [NoCall EXCEPT !.op = "a_select_speaker",
                                         !.last_speaker = last_speaker,
                                         !.final = final, !.name = name,
                                         !.raised = out.raised, !.agent = out.agent]
    /\ UNCHANGED <<handlers, backend, groupchat, max_retry_round, store, pc, turn, dispatch,
                   reply, messages>>

SpeakerNext == CallSelectSpeaker

SpeakerSpec == SpeakerInit /\ [][SpeakerNext]_vars

-----------------------------------------------------------------------------
(* Properties of the scheduler *)

ConvRows == {i \in DOMAIN store : store[i].conv_id = conv}

\* the stored rows of the subtask the dispatch in flight is about
DispatchedRows == {i \in ConvRows : store[i].sub_task_num = dispatch.plan_task_num}

\* C1: a subtask with a non-empty rely is never dispatched while a subtask it
\* references is missing from the plan or is not COMPLETE
C1_DependenciesCompleteAtDispatch ==
    pc = "dispatched" =>
        \A k \in DOMAIN turn.rely :
            \E i \in ConvRows : /\ store[i].sub_task_num.n = turn.rely[k]
                                /\ store[i].state = StatusCOMPLETE

C3_FailedWhenRetriesExceeded ==
    \A i \in ConvRows :
        store[i].retry_times > store[i].max_retry_times => store[i].state = StatusFAILED

\* C4: a subtask whose retry_times is greater than its max_retry_times is not
\* returned by get_todo_plans, and is not the subtask of a dispatch
C4_ExhaustedNeverTodo ==
    LET todo == get_todo_plans(backend, store, conv)
    IN  \A i \in ConvRows :
            store[i].retry_times > store[i].max_retry_times =>
                /\ \A k \in DOMAIN todo.rows : todo.rows[k] # store[i]
                /\ pc = "dispatched" => i \notin DispatchedRows

C4_Witness ==
    /\ pc \in {"dispatched", "terminated"}
    /\ \E i \in ConvRows : store[i].retry_times > store[i].max_retry_times

\* C5: the run reaches the turn that sends TERMINATE
C5_Terminates == <>(pc = "terminated")

\* the status changes of the state machine TODO -> RUNNING -> {COMPLETE | RETRYING -> RUNNING | FAILED}
StatusMachine ==
    {<<StatusTODO, StatusRUNNING>>, <<StatusRUNNING, StatusCOMPLETE>>,
     <<StatusRUNNING, StatusRETRYING>>, <<StatusRETRYING, StatusRUNNING>>,
     <<StatusRUNNING, StatusFAILED>>}

\* C6: every change of a subtask's status is one of the state machine, and a
\* dispatched subtask is RUNNING until its reply is processed
C6_StatusMachine ==
    [][/\ \A i \in DOMAIN store \cap DOMAIN store' :
              (/\ store'[i].conv_id = store[i].conv_id
               /\ store'[i].sub_task_num = store[i].sub_task_num
               /\ store'[i].state # store[i].state)
              => <<store[i].state, store'[i].state>> \in StatusMachine
       /\ pc' = "dispatched" =>
              \A i \in DOMAIN store' :
                  (store'[i].conv_id = conv /\ store'[i].sub_task_num = dispatch'.plan_task_num)
                  => store'[i].state = StatusRUNNING]_vars

\* C7: when a plan is persisted and no reply failed, the run does not stop before
\* every subtask is COMPLETE and TERMINATE is sent
C7_AllSucceedCompletes ==
    (/\ ConvRows # {}
     /\ \A i \in ConvRows : store[i].retry_times = 0
     /\ pc \notin {"idle", "dispatched"})
    => /\ pc = "terminated"
       /\ turn.sent = "TERMINATE"
       /\ \A i \in ConvRows : store[i].state = StatusCOMPLETE

-----------------------------------------------------------------------------
(* Properties of the plan store *)

\* a subtask with its task number read as a number, whether kept as int or as str
Canon(row) == [row EXCEPT !.sub_task_num = IntNum(@.n)]

SameSubtasks(rows, plans) ==
    /\ Len(rows) = Len(plans)
    /\ {Canon(rows[i]) : i \in DOMAIN rows} = {Canon(plans[i]) : i \in DOMAIN plans}

\* a plan: no task number twice
IsPlan(plans) ==
    \A i, j \in DOMAIN plans : plans[i].sub_task_num.n = plans[j].sub_task_num.n => i = j

\* C8: after remove_by_conv_id(c) and batch_save(P), get_by_conv_id(c) returns
\* exactly the subtasks of P, whatever the store held; doing both again with the
\* same P leaves what get_by_conv_id(c) returns, and the rest of the store, as it is
C8_ReplaceIsExact ==
    (last.op = "replace" /\ IsPlan(last.plans)) =>
        LET c == last.conv_id
            got == get_by_conv_id(backend, store, c)
            again == batch_save(backend, remove_by_conv_id(backend, store, c).store,
                                last.plans)
        IN  /\ ~last.raised
            /\ ~got.raised
            /\ SameSubtasks(got.rows, last.plans)
            /\ ~again.raised
            /\ get_by_conv_id(backend, again.store, c) = got
            /\ \A d \in Convs \ {c} :
                   get_by_conv_id(backend, again.store, d) = get_by_conv_id(backend, store, d)

C8_Witness ==
    /\ last.op = "replace"
    /\ IsPlan(last.plans)
    /\ Len(last.plans) = 2
    /\ last.had > 0
    /\ \E i \in DOMAIN store : store[i].conv_id # last.conv_id

\* C9: a subtask stored by batch_save is returned by
\* get_by_conv_id_and_num(conv_id, [sub_task_num]) exactly once, with the fields saved
C9_RoundTrip ==
    (last.op = "batch_save" /\ ~last.raised) =>
        \A i \in DOMAIN last.plans :
            LET got == get_by_conv_id_and_num(backend, store, last.conv_id,
                                              <<last.plans[i].sub_task_num>>)
            IN  /\ ~got.raised
                /\ Len(got.rows) = 1
                /\ Canon(got.rows[1]) = Canon(last.plans[i])

\* C10: the store holds at most one subtask per (conv_id, sub_task_num)
C10_UniqueTaskNumber ==
    \A i, j \in DOMAIN store :
        (store[i].conv_id = store[j].conv_id /\ store[i].sub_task_num = store[j].sub_task_num)
        => i = j

\* the rows of conversation c that are selectable: status TODO or RETRYING
Selectable(s, c) ==
    SelectSeq(s, LAMBDA r : r.conv_id = c /\ r.state \in {StatusTODO, StatusRETRYING})

\* C11: for a conversation with stored subtasks, get_todo_plans returns exactly its
\* subtasks in status TODO or RETRYING, in ascending sub_task_num order
C11_TodoPlansExact ==
    \A c \in Convs :
        RowsOfConv(store, c) > 0 =>
            LET got == get_todo_plans(backend, store, c)
            IN  /\ ~got.raised
                /\ Len(got.rows) = Len(Selectable(store, c))
                /\ Range(got.rows) = Range(Selectable(store, c))
                /\ \A i, j \in DOMAIN got.rows :
                       i < j => got.rows[i].sub_task_num.n <= got.rows[j].sub_task_num.n

-----------------------------------------------------------------------------
(* Properties of the speaker selection *)

\* the agents a_select_speaker may choose among: all of them, or all but the
\* previous speaker when allow_repeat_speaker is false
Candidates == {a \in Range(agent_names) :
                  groupchat.allow_repeat_speaker \/ a # last.last_speaker}

\* the candidate names that occur in the reply as a whole word
WholeWordNames ==
    {a \in Candidates :
        \E i \in DOMAIN last.name :
            /\ last.name[i] = a
            /\ (i = 1 \/ last.name[i - 1] = " ")
            /\ (i = Len(last.name) \/ last.name[i + 1] = " ")}

Selected ==
    /\ last.op = "a_select_speaker"
    /\ groupchat.speaker_selection_method \in VALID_SPEAKER_SELECTION_METHODS
    /\ last.final

\* C12: when the reply names exactly one candidate as a whole word,
\* a_select_speaker returns that agent
C12_SingleMentionSelected ==
    (Selected /\ Cardinality(WholeWordNames) = 1) =>
        /\ ~last.raised
        /\ last.agent \in WholeWordNames

\* "I choose Beta for this." selects Beta, and so does "notBeta Alpha" select Alpha
C12_Witness ==
    /\ Selected
    /\ last.name \in {<<"w", " ", "Beta", " ", "w", " ">>, <<"w", "Beta", " ", "Alpha">>}
    /\ Cardinality(WholeWordNames) = 1
    /\ last.agent \in WholeWordNames

\* C13: when the reply names no candidate or more than one, a_select_speaker
\* raises nothing and returns the candidate that follows the previous speaker
C13_AmbiguousFallsBack ==
    (Selected /\ Cardinality(WholeWordNames) # 1 /\ last.last_speaker \in Range(agent_names)) =>
        /\ ~last.raised
        /\ last.agent \in Candidates
        /\ last.agent = next_agent(last.last_speaker,
                                   SelectSeq(agent_names, LAMBDA a : a \in Candidates)).agent

-----------------------------------------------------------------------------
(* Properties of the planner *)

PlanOf(s) == SelectSeq(s, LAMBDA r : r.conv_id = conv)

\* C14: a planning pass on a reply with no JSON array or with more than one raises
\* nothing, replies is_exe_success=false with the failure reason, and leaves the
\* store as it was
C14_BadCountHandled ==
    [][(last'.op = "_a_planning" /\ Len(last'.json_objects) # 1) =>
          /\ ~last'.raised
          /\ ~last'.is_exe_success
          /\ last'.content = ContentFailReason
          /\ store' = store]_vars

C14_Witness ==
    /\ last.op = "_a_planning"
    /\ Len(last.json_objects) = 2
    /\ last.had > 0
    /\ ~last.is_exe_success
    /\ Len(PlanOf(store)) = last.had

\* the subtask the accepted JSON item stands for
ExpectedSubtask(item) ==
    [conv_id          |-> conv,
     sub_task_num     |-> IntNum(item.serial_number.n),
     sub_task_content |-> item.content,
     sub_task_title   |-> item.content,
     sub_task_agent   |-> item.agent,
     resource_name    |-> item.resource,
     rely             |-> item.rely,
     agent_model      |-> None,
     retry_times      |-> 0,
     max_retry_times  |-> max_retry_round,
     state            |-> StatusTODO,
     result           |-> None]

OnePerItem(rows, items) ==
    /\ Len(rows) = Len(items)
    /\ \A i \in DOMAIN items : Canon(rows[i]) = ExpectedSubtask(items[i])

\* C15: a planning pass leaves the conversation either with exactly the new
\* subtasks or with the plan it had before, never with an empty or partial plan
C15_ReplaceAllOrNothing ==
    [][last'.op = "_a_planning" =>
          \/ PlanOf(store') = PlanOf(store)
          \/ /\ ~last'.raised
             /\ Len(last'.json_objects) = 1
             /\ OnePerItem(PlanOf(store'), last'.json_objects[1])]_vars

-----------------------------------------------------------------------------
(* Properties of the turns of a_run_chat *)

\* C17: a turn of a_run_chat sends TERMINATE, to the sender of the turn, exactly
\* when its get_todo_plans returns no subtask; that turn dispatches nothing, and a
\* turn that dispatches a subtask sends it to an agent and not TERMINATE
C17_TerminateIffNoTodo ==
    [][pc = "idle" =>
          LET todo == get_todo_plans(backend, store', conv)
          IN  /\ turn'.sent = "TERMINATE" <=>
                     (turn'.error # "_a_planning" /\ ~todo.raised /\ todo.rows = <<>>)
              /\ turn'.sent = "TERMINATE" =>
                     /\ pc' = "terminated"
                     /\ turn'.to = turn'.sender
                     /\ dispatch' = NoDispatch
              /\ pc' = "dispatched" =>
                     /\ turn'.sent = "dispatch"
                     /\ todo.rows # <<>>
                     /\ dispatch'.to \in Range(agent_names)
                     /\ dispatch'.plan_task_num = todo.rows[1].sub_task_num]_vars

\* a run that dispatched a subtask and, turns later, sent TERMINATE
C17_Witness ==
    /\ pc = "terminated"
    /\ turn.sent = "TERMINATE"
    /\ ~turn.planned
    /\ reply.shape = "report"
    /\ dispatch = NoDispatch

\* C18: when TERMINATE has been sent every subtask of the conversation is COMPLETE
\* or FAILED
C18_TerminateOnlyWhenSettled ==
    turn.sent = "TERMINATE" =>
        \A i \in ConvRows : store[i].state \in {StatusCOMPLETE, StatusFAILED}

-----------------------------------------------------------------------------
(* Properties of the store shared by two conversations *)

RowsFor(s, c) == SelectSeq(s, LAMBDA r : r.conv_id = c)

\* what the queries of conversation c return on the store s
Queried(s, c) ==
    Range(get_by_conv_id(backend, s, c).rows)
    \cup Range(get_todo_plans(backend, s, c).rows)
    \cup Range(get_by_conv_id_and_num(backend, s, c, <<StrNum(1), StrNum(2)>>).rows)

\* C19: a call made for one conversation leaves the subtasks stored for the other
\* as they were, and the queries of a conversation return only its own subtasks
C19_ConversationsIsolated ==
    [][\A c \in Convs :
          /\ last'.conv_id = c =>
                 \A d \in Convs \ {c} : RowsFor(store', d) = RowsFor(store, d)
          /\ \A r \in Queried(store', c) : r.conv_id = c]_vars

\* conversation c1 completed its subtask 1 while c2 holds a subtask 1 of its own
C19_Witness ==
    /\ last.op = "complete_task"
    /\ last.conv_id = "c1"
    /\ \E i, j \in DOMAIN store :
           /\ store[i].conv_id = "c1" /\ store[j].conv_id = "c2"
           /\ store[i].sub_task_num = store[j].sub_task_num
           /\ store[i].state = StatusCOMPLETE
           /\ store[j].state = StatusTODO

-----------------------------------------------------------------------------
(* Properties of the dispatch context *)

\* the stored subtask whose content the dispatch in flight carries
SentRows == {i \in ConvRows : store[i].sub_task_content = dispatch.content}

\* C20: the context of a dispatch has use_cache false exactly when the retry_times
\* of the dispatched subtask is greater than 1, and plan_task_num is its sub_task_num
C20_UseCacheAndTaskNum ==
    pc = "dispatched" =>
        /\ SentRows # {}
        /\ \A i \in SentRows :
               /\ dispatch.use_cache <=> ~(store[i].retry_times > 1)
               /\ dispatch.plan_task_num = store[i].sub_task_num
               /\ dispatch.plan_task = store[i].sub_task_content

\* a subtask in its third attempt is dispatched with use_cache false
C20_Witness ==
    /\ pc = "dispatched"
    /\ ~dispatch.use_cache
    /\ \E i \in SentRows : store[i].retry_times = 2 /\ store[i].state = StatusTODO

-----------------------------------------------------------------------------
(* Properties of the interrupt handling *)

\* the stored rows of the subtask that was the current task of the turn
NowPlanRows == {i \in ConvRows : Len(turn.todo) > 0 /\ store[i].sub_task_num = turn.todo[1]}

\* C21: a KeyboardInterrupt raised during speaker selection, dependency injection
\* or the send re-issues the same dispatch (content, plan_task, plan_task_num,
\* use_cache) to the agent named admin_name when that agent is one of the group;
\* when it is not, the interrupt leaves a_run_chat
C21_InterruptReissued ==
    (turn.interrupt # "none" /\ pc # "idle") =>
        IF admin_name \in Range(agent_names)
        THEN /\ pc = "dispatched"
             /\ dispatch.to = admin_name
             /\ \E i \in NowPlanRows :
                    /\ dispatch.content = store[i].sub_task_content
                    /\ dispatch.plan_task = store[i].sub_task_content
                    /\ dispatch.plan_task_num = store[i].sub_task_num
                    /\ dispatch.use_cache = use_cache(store[i])
        ELSE pc = "crashed" /\ turn.error = "KeyboardInterrupt"

-----------------------------------------------------------------------------
(* Properties of a run that is resumed *)

\* the conversation holds subtask n in status RUNNING
RunningSubtask(n) == \E i \in ConvRows : store[i].sub_task_num = n /\ store[i].state = StatusRUNNING

\* C22: a subtask that is RUNNING when the scheduler is run (again) on its
\* conversation is selected and dispatched by a later turn; no subtask stays
\* RUNNING forever
C22_RunningResumed ==
    \A n \in SharedNums :
        RunningSubtask(n) ~> (pc = "dispatched" /\ dispatch.plan_task_num = n)

-----------------------------------------------------------------------------
(* Properties of the handling of replies *)

\* the reply just processed reported is_exe_success=false for subtask n, whose
\* retry_times does not exceed its max_retry_times
FailedWithinBudget(n) ==
    /\ pc = "idle"
    /\ reply.shape = "report" /\ ~reply.is_exe_success
    /\ reply.task_num = n
    /\ \E i \in ConvRows : /\ store[i].sub_task_num = n
                           /\ store[i].retry_times <= store[i].max_retry_times

\* C23: after a reply with is_exe_success=false for a subtask whose retry_times does
\* not exceed max_retry_times, the run goes on and a later turn dispatches the same
\* subtask again
C23_FailureRetried ==
    \A n \in TaskNums :
        FailedWithinBudget(n) ~> (pc = "dispatched" /\ dispatch.plan_task_num = n)

\* C24: a reply with is_exe_success=true whose goal check fails makes the stored
\* result of the dispatched subtask the text that explains the failed check, and
\* its stored agent the name of the replying agent
C24_CheckFailureRecorded ==
    [][(/\ pc = "dispatched"
        /\ reply'.shape = "report"
        /\ reply'.is_exe_success /\ ~reply'.check_succ)
       => /\ DispatchedRows # {}
          /\ \A i \in DispatchedRows :
                 /\ i \in DOMAIN store'
                 /\ store'[i].result = CheckFailed
                 /\ store'[i].sub_task_agent = reply'.from]_vars

-----------------------------------------------------------------------------
(* Properties of the configured selection policy *)

\* the agent after agent a in the order of PlanChat.agents, wrapping at the end
RoundRobinNext(a) == agent_names[(IndexOf(agent_names, a) % Len(agent_names)) + 1]

\* C25: with speaker_selection_method "round_robin", a_select_speaker returns the
\* agent that follows the previous speaker in the order of the agents list,
\* whatever the model replies
C25_RoundRobinIgnoresReply ==
    (/\ last.op = "a_select_speaker"
     /\ groupchat.speaker_selection_method = "round_robin"
     /\ last.last_speaker \in Range(agent_names))
    => /\ ~last.raised
       /\ last.agent = RoundRobinNext(last.last_speaker)

-----------------------------------------------------------------------------
(* Properties of the choice of the current task *)

\* the stored rows of the conversation in status TODO or RETRYING
EligibleRows == {i \in ConvRows : store[i].state \in {StatusTODO, StatusRETRYING}}

\* C26: the subtask of a dispatch is the one with the smallest sub_task_num among
\* the conversation's subtasks in status TODO or RETRYING
C26_SmallestEligibleDispatched ==
    pc = "dispatched" =>
        /\ DispatchedRows \cap EligibleRows # {}
        /\ \A i \in EligibleRows : dispatch.plan_task_num.n <= store[i].sub_task_num.n

-----------------------------------------------------------------------------
(* Properties of the completion of a subtask *)

-----------------------------------------------------------------------------
(* Properties of the recording of a failed execution *)

\* C28: a reply with is_exe_success=false is recorded without a goal check: the
\* dispatched subtask gets status RUNNING, retry_times plus one, the name of the
\* replying agent, and the empty string as result
C28_ExecutionFailureRecorded ==
    [][(/\ pc = "dispatched"
        /\ reply'.shape = "report"
        /\ ~reply'.is_exe_success)
       => /\ ~reply'.check_succ
          /\ DispatchedRows # {}
          /\ \A i \in DispatchedRows :
                 /\ i \in DOMAIN store'
                 /\ store'[i].state = StatusRUNNING
                 /\ store'[i].retry_times = store[i].retry_times + 1
                 /\ store'[i].sub_task_agent = reply'.from
                 /\ store'[i].result = ""]_vars

-----------------------------------------------------------------------------
(* Properties of the dependency context *)

\* C29: at every dispatch the speaker was given, for each task of the current
\* task's rely, the content of that task as a user turn and then its stored result
\* as an assistant turn, and its dialogue_memory_rounds was set to twice the
\* number of tasks in rely plus two, also when rely names no task
C29_RelyContextInjected ==
    pc = "dispatched" =>
        /\ dispatch.dialogue_memory_rounds = 2 * Len(turn.rely) + 2
        /\ Len(dispatch.rely_messages) = 2 * Len(turn.rely)
        /\ \A k \in DOMAIN turn.rely :
               \E i \in ConvRows :
                   /\ store[i].sub_task_num.n = turn.rely[k]
                   /\ dispatch.rely_messages[2 * k - 1] =
                          [role |-> "user", content |-> store[i].sub_task_content]
                   /\ dispatch.rely_messages[2 * k] =
                          [role |-> "assistant", content |-> store[i].result]

-----------------------------------------------------------------------------
(* Properties of the message record *)

-----------------------------------------------------------------------------
(* Properties of concurrent replies *)

\* the reply of handler h was a failure: is_exe_success=false, or a failed goal check
FailureReply(h) == ~(handlers[h].is_exe_success /\ handlers[h].check_succ)

\* C31: when two failure replies for the same subtask have been processed
\* concurrently, its retry_times is two higher than before (it was 0): no
\* increment is lost
C31_NoLostIncrement ==
    (/\ handlers # <<>>
     /\ \A h \in Handlers : handlers[h].pc = "done" /\ FailureReply(h))
    => \A i \in ConvRows :
           store[i].sub_task_num = ConcurrentTaskNum => store[i].retry_times = 2

-----------------------------------------------------------------------------
(* Properties of the stored plan *)

\* C32: after a successful planning pass every task number in the rely of a
\* stored subtask is the sub_task_num of a subtask stored for the same conversation
C32_RelyResolved ==
    (last.op = "_a_planning" /\ ~last.raised /\ last.is_exe_success) =>
        \A i \in ConvRows :
            \A k \in DOMAIN store[i].rely :
                \E j \in ConvRows : store[j].sub_task_num.n = store[i].rely[k]

-----------------------------------------------------------------------------
(* Properties of the candidate subset *)

\* C33: with allow_repeat_speaker false, a_select_speaker never returns the
\* previous speaker, whatever the model replies
C33_NoRepeatSpeaker ==
    (/\ last.op = "a_select_speaker"
     /\ ~groupchat.allow_repeat_speaker
     /\ ~last.raised)
    => last.agent # last.last_speaker

\* the first agent after agent a in registration order, wrapping around, that is
\* in subset
FirstAfter(a, subset) ==
    LET n == Len(agent_names)
        at(k) == agent_names[((IndexOf(agent_names, a) - 1 + k) % n) + 1]
        k0 == CHOOSE k \in 1..n : at(k) \in subset /\ \A j \in 1..(k - 1) : at(j) \notin subset
    IN  at(k0)

\* C34: when the model produces no output, a_select_speaker returns a candidate:
\* the first one after the previous speaker in registration order, wrapping around
C34_NoOutputRoundRobin ==
    (/\ last.op = "a_select_speaker"
     /\ groupchat.speaker_selection_method \in VALID_SPEAKER_SELECTION_METHODS
     /\ ~last.final
     /\ Candidates # {})
    => /\ ~last.raised
       /\ last.agent \in Candidates
       /\ last.last_speaker \in Range(agent_names)
             => last.agent = FirstAfter(last.last_speaker, Candidates)

-----------------------------------------------------------------------------
(* Properties of the conversion of the planner's items *)

\* C35: a planning pass on a reply whose single array has an item without
\* serial_number or content, or of the wrong type, answers is_exe_success=false
\* with the reason as content and changes nothing in the store
C35_MalformedItemRejected ==
    [][(last'.op = "_a_planning" /\ last'.json_objects \in MalformedReplies)
       => /\ ~last'.raised
          /\ ~last'.is_exe_success
          /\ last'.content = ContentFailReason
          /\ store' = store]_vars

-----------------------------------------------------------------------------
(* Frame of the handling of a reply *)

\* C36: processing a reply changes no stored row but those of the subtask whose
\* sub_task_num is the plan_task_num of the reply's context: every other subtask
\* of the conversation, and every row of another conversation, stays as it was
C36_ReplyChangesOneSubtask ==
    [][pc = "dispatched"
       => /\ Len(store') = Len(store)
          /\ \A i \in DOMAIN store :
                 (store[i].conv_id # conv \/ store[i].sub_task_num # dispatch.plan_task_num)
                 => store'[i] = store[i]]_vars

\* a failed reply for one subtask was processed while another subtask of the
\* conversation is stored, still TODO
C36_Witness ==
    /\ pc = "idle"
    /\ reply.shape = "report" /\ ~reply.is_exe_success
    /\ \E i, j \in ConvRows :
           /\ store[i].sub_task_num = reply.task_num
           /\ store[i].state = StatusRUNNING
           /\ store[j].sub_task_num # reply.task_num
           /\ store[j].state = StatusTODO /\ store[j].retry_times = 0

\* C37: a reply without a context, without plan_task_num in its context or without
\* an action report leaves the plan store as it is
C37_UnreportedReplyKeepsStore ==
    [][(pc = "dispatched" /\ reply'.shape \in ReplyShapes \ {"report"})
       => store' = store]_vars

\* a reply without an action report was processed and the dispatched subtask is
\* still TODO
C37_Witness ==
    /\ pc = "idle"
    /\ reply.shape = "no_report"
    /\ \E i \in ConvRows : /\ store[i].sub_task_num = dispatch.plan_task_num
                           /\ store[i].state = StatusTODO

-----------------------------------------------------------------------------
(* Properties of completed subtasks *)

\* C38: a subtask that is COMPLETE keeps its status and its result, whatever
\* reply the manager processes afterwards
C38_CompleteIsFinal ==
    [][\A i \in DOMAIN store :
           store[i].state = StatusCOMPLETE
           => /\ i \in DOMAIN store'
              /\ store'[i].state = StatusCOMPLETE
              /\ store'[i].result = store[i].result]_vars

-----------------------------------------------------------------------------
(* Properties of the end of a run *)

\* C39: TERMINATE is sent only when the plan store holds a subtask of the
\* conversation; a turn whose planning pass persisted no plan does not send it
C39_TerminateNeedsPlan ==
    (pc = "terminated" /\ turn.sent = "TERMINATE") => ConvRows # {}

-----------------------------------------------------------------------------
(* Frame of a planning pass on the empty array *)

\* C40: a planner reply whose single JSON array is empty is answered with
\* is_exe_success=true and changes nothing in the store: the stored plan of the
\* conversation is neither deleted nor extended
C40_EmptyArrayKeepsPlan ==
    [][(last'.op = "_a_planning" /\ last'.json_objects = <<<<>>>>)
       => /\ ~last'.raised
          /\ last'.is_exe_success
          /\ store' = store]_vars

\* the empty array was answered with success while a plan is stored
C40_Witness ==
    /\ last.op = "_a_planning"
    /\ last.json_objects = <<<<>>>>
    /\ last.is_exe_success
    /\ last.had > 0
    /\ Cardinality(ConvRows) = last.had

=============================================================================
